---------------------------- MODULE Spec2Model ----------------------------
(***************************************************************************)
(* layeredCanopyRT.py: Meador-Weaver two-stream optics of one canopy       *)
(* layer (canopyLayer) and the adding scheme that stacks the layers        *)
(* (layeredCanopy).                                                        *)
(*                                                                         *)
(* Numbers.  The program works in IEEE doubles.  Here a number is an exact *)
(* rational [n, d] in lowest terms with d > 0; d = 0 stands for a          *)
(* non-finite double (NaN or +-Inf: what numpy yields for x/0 and for the  *)
(* square root of a negative number), and every operation on a non-finite  *)
(* operand is non-finite (the program never divides by a possibly infinite *)
(* value, so NaN and Inf need not be told apart).  Rounding error is not   *)
(* modelled: identities are checked exactly.                               *)
(*                                                                         *)
(* np.exp is modelled on the lattice of arguments j*ln(2), j an integer:   *)
(* exp(j*ln 2) = 2^j, so an optical depth is held in units of ln 2 and     *)
(* exp(a + b) = exp(a)*exp(b) is exact.  np.sqrt is exact on squares of    *)
(* rationals and is rounded down to a multiple of 1/2 elsewhere.  The      *)
(* layer parameter sets that are enumerated (Kinds) are chosen so that     *)
(* every exp argument is on the lattice and every k is rational.           *)
(***************************************************************************)
EXTENDS Integers, Sequences, FiniteSets

VARIABLES
    mu,                \* layeredCanopy.mu (shared by every layer)
    layers,            \* layeredCanopy.layers: parameters of each canopyLayer
    lower_boundary_r,  \* layeredCanopy.lower_boundary_r
    propDif,           \* layeredCanopy.propDif
    flux,              \* result fields written on each layer by getFluxes
    last,              \* how the last getFluxes call ended: none / ok / raised
    dirty,             \* a parameter was changed since the last call
    muts,              \* number of parameter changes so far
    again,             \* the last call followed a call, with no change between
    pc,                \* position inside a getFluxes call (stepwise view)
    idx,               \* loop variable `layer` (1 = top layer)
    loc,               \* locals of the running pass
    probe,             \* getGamma study: the layer and method it is applied to
    gam                \* getGamma study: what the call returned

vars == <<mu, layers, lower_boundary_r, propDif, flux, last, dirty, muts,
          again, pc, idx, loc, probe, gam>>

---------------------------------------------------------------------------
(* Exact rationals with a non-finite element.  Let and Let2 bind the value *)
(* of an expression to a name, so that it is computed once.                *)

Let(e, F(_)) == CHOOSE r \in {F(v) : v \in {e}} : TRUE
Let2(e1, e2, F(_, _)) == CHOOSE r \in {F(u, v) : u \in {e1}, v \in {e2}} : TRUE

AbsInt(i) == IF i < 0 THEN -i ELSE i

gcd[a \in Nat, b \in Nat] == IF b = 0 THEN a ELSE gcd[b, a % b]

\* the largest r >= from with r*r <= i
isqrt[i \in Nat, from \in Nat] ==
    IF (from + 1) * (from + 1) > i THEN from ELSE isqrt[i, from + 1]

NaN == [n |-> 0, d |-> 0]
\* a result attribute that no call has created yet
Unset == [n |-> 1, d |-> 0]

IsNum(a) == a.d # 0

Rat(n0, d0) ==
    Let2(n0, d0, LAMBDA n, d :
        IF d = 0 THEN NaN
        ELSE Let(gcd[AbsInt(n), AbsInt(d)], LAMBDA g :
                 IF d < 0 THEN [n |-> (-n) \div g, d |-> (-d) \div g]
                 ELSE [n |-> n \div g, d |-> d \div g]))

Zero == [n |-> 0, d |-> 1]
One == [n |-> 1, d |-> 1]
Two == [n |-> 2, d |-> 1]
Half == [n |-> 1, d |-> 2]

Neg(x) == Let(x, LAMBDA a : IF IsNum(a) THEN [n |-> -a.n, d |-> a.d] ELSE NaN)

Mul(x, y) ==
    Let2(x, y, LAMBDA a, b :
        IF ~IsNum(a) \/ ~IsNum(b) THEN NaN
        ELSE IF a.n = 0 \/ b.n = 0 THEN Zero
        ELSE Let2(gcd[AbsInt(a.n), b.d], gcd[AbsInt(b.n), a.d], LAMBDA g1, g2 :
                 [n |-> (a.n \div g1) * (b.n \div g2),
                  d |-> (a.d \div g2) * (b.d \div g1)]))

Add(x, y) ==
    Let2(x, y, LAMBDA a, b :
        IF ~IsNum(a) \/ ~IsNum(b) THEN NaN
        ELSE Let(gcd[a.d, b.d], LAMBDA g :
                 Rat(a.n * (b.d \div g) + b.n * (a.d \div g),
                     (a.d \div g) * b.d)))

Sub(x, y) == Add(x, Neg(y))

\* numpy division: x/0 is non-finite, with a warning and no exception
Div(x, y) ==
    Let2(x, y, LAMBDA a, b :
        IF ~IsNum(a) \/ ~IsNum(b) \/ b.n = 0 THEN NaN
        ELSE IF b.n < 0 THEN Mul(a, [n |-> -b.d, d |-> -b.n])
        ELSE Mul(a, [n |-> b.d, d |-> b.n]))

Abs(x) == Let(x, LAMBDA a : IF IsNum(a) THEN [n |-> AbsInt(a.n), d |-> a.d] ELSE NaN)

Leq(x, y) ==
    Let2(x, y, LAMBDA a, b : IsNum(a) /\ IsNum(b) /\ a.n * b.d <= b.n * a.d)

\* np.sqrt: non-finite below zero
Sqrt(x) ==
    Let(x, LAMBDA a :
        IF ~IsNum(a) \/ a.n < 0 THEN NaN
        ELSE Let2(isqrt[a.n, 0], isqrt[a.d, 0], LAMBDA rn, rd :
                 IF rn * rn = a.n /\ rd * rd = a.d THEN Rat(rn, rd)
                 ELSE Rat(isqrt[(4 * a.n) \div a.d, 0], 2)))

\* np.exp at a*ln(2)
Exp(x) ==
    Let(x, LAMBDA a :
        IF ~IsNum(a) \/ a.d # 1 THEN NaN
        ELSE IF a.n >= 0 THEN [n |-> 2 ^ a.n, d |-> 1]
        ELSE [n |-> 1, d |-> 2 ^ (-a.n)])

---------------------------------------------------------------------------
(* canopyLayer.  A layer is a record of its parameters: leaf_r, leaf_t,    *)
(* lai, the two scaling policies, and what the geometry collaborator       *)
(* (leafGeometry, not part of the source) returns for it at the stack's    *)
(* mu: G = G(mu), Z = Z(mu), muBar = muBar(), B = B_diffuse(),             *)
(* B0 = B_direct().                                                        *)

w(L) == Add(L.leaf_r, L.leaf_t)

Failed == [err |-> TRUE, g1 |-> NaN, g2 |-> NaN, g3 |-> NaN, g4 |-> NaN]

\* an unknown method falls through to the "delta" scale instead of raising
getGammaLenient(L, method) ==
    Let(IF method = "quad" THEN Sqrt(Rat(3, 1))
        ELSE Div(One, Mul(L.G, L.muBar)), LAMBDA scale :
        [err |-> FALSE,
         g1 |-> Mul(Sub(One, Mul(Sub(One, L.B), w(L))), scale),
         g2 |-> Mul(Mul(w(L), L.B), scale),
         g3 |-> L.B0,
         g4 |-> Sub(One, L.B0)])

\* g1 loses its (1-B) factor: g1 = (1 - B*w)*scale
getGammaSwapped(L, method) ==
    IF method \notin {"delta", "quad"} THEN Failed
    ELSE Let(IF method = "delta" THEN Div(One, Mul(L.G, L.muBar))
             ELSE Sqrt(Rat(3, 1)), LAMBDA scale :
             [err |-> FALSE,
              g1 |-> Mul(Sub(One, Mul(L.B, w(L))), scale),
              g2 |-> Mul(Mul(w(L), L.B), scale),
              g3 |-> L.B0,
              g4 |-> Sub(One, L.B0)])

getGamma(L, method) ==
    IF method \notin {"delta", "quad"} THEN Failed
    ELSE Let(IF method = "delta" THEN Div(One, Mul(L.G, L.muBar))
             ELSE Sqrt(Rat(3, 1)), LAMBDA scale :
             [err |-> FALSE,
              g1 |-> Mul(Sub(One, Mul(Sub(One, L.B), w(L))), scale),
              g2 |-> Mul(Mul(w(L), L.B), scale),
              g3 |-> L.B0,
              g4 |-> Sub(One, L.B0)])

RaisedRT == [err |-> TRUE, R |-> NaN, T |-> NaN]

\* the closed forms of rtDirect once g1..g4, tau and k are known
directForms(L, m, g, tau, k) ==
    Let2(Exp(Mul(k, tau)), Exp(Neg(Mul(k, tau))), LAMBDA ep, en :
    Let2(Add(Mul(g.g1, g.g4), Mul(g.g2, g.g3)),
         Add(Mul(g.g1, g.g3), Mul(g.g2, g.g4)), LAMBDA a1, a2 :
    Let2(Mul(k, m),
         Mul(Sub(One, Mul(Mul(Mul(k, k), m), m)),
             Add(Mul(Add(k, g.g1), ep), Mul(Sub(k, g.g1), en))), LAMBDA km, D :
    Let(Div(w(L), D), LAMBDA wD :
        [err |-> FALSE,
         R |-> Mul(wD,
                   Sub(Sub(Mul(Mul(Sub(One, km), Add(a2, Mul(k, g.g3))), ep),
                           Mul(Mul(Add(One, km), Sub(a2, Mul(k, g.g3))), en)),
                       Mul(Mul(Mul(Two, k), Sub(g.g3, Mul(a2, m))),
                           Exp(Neg(Div(tau, m)))))),
         T |-> Mul(Exp(Neg(Div(tau, m))),
                   Sub(One,
                       Mul(wD,
                           Sub(Sub(Mul(Mul(Add(One, km), Add(a1, Mul(k, g.g4))), ep),
                                   Mul(Mul(Sub(One, km), Sub(a1, Mul(k, g.g4))), en)),
                               Mul(Mul(Mul(Two, k), Add(g.g4, Mul(a1, m))),
                                   Exp(Div(tau, m)))))))]))))

rtDirect(L, m) ==
    Let(getGamma(L, L.gamma_scaling_direct), LAMBDA g :
        IF g.err THEN RaisedRT
        ELSE Let2(Mul(Mul(L.lai, L.G), L.Z),
                  Sqrt(Sub(Mul(g.g1, g.g1), Mul(g.g2, g.g2))), LAMBDA tau, k :
                  directForms(L, m, g, tau, k)))

tUncollidedDirect(L, m) == Exp(Neg(Div(Mul(Mul(L.G, L.Z), L.lai), m)))

rtDiffuse(L) ==
    Let(getGamma(L, L.gamma_scaling_diffuse), LAMBDA g :
        IF g.err THEN RaisedRT
        ELSE Let2(Mul(Mul(L.lai, L.G), L.Z),
                  Sqrt(Sub(Mul(g.g1, g.g1), Mul(g.g2, g.g2))), LAMBDA tau, k :
             Let(Exp(Neg(Mul(Mul(Two, k), tau))), LAMBDA e2 :
             Let(Add(Add(k, g.g1), Mul(Sub(k, g.g1), e2)), LAMBDA D :
                 [err |-> FALSE,
                  R |-> Div(Mul(g.g2, Sub(One, e2)), D),
                  T |-> Div(Mul(Mul(Two, k), Exp(Neg(Mul(k, tau)))), D)]))))

---------------------------------------------------------------------------
(* layeredCanopy.  Layer 1 is the top layer (index 0 of the source), layer *)
(* Len(Ls) the bottom one.  F is the sequence of the layers' result        *)
(* fields.                                                                 *)

NoFields ==
    [Iup |-> Unset, Idn |-> Unset, Iab |-> Unset,
     Iup_dif |-> Unset, Idn_dif |-> Unset, Iab_dif |-> Unset,
     Iup_dir |-> Unset, Idn_dir |-> Unset, Iab_dir |-> Unset,
     Iup_dir_u |-> Unset, Iup_dir_c |-> Unset,
     Idn_dir_u |-> Unset, Idn_dir_c |-> Unset]

\* 1.+Z/(1.-Z)
Series(Z) == Add(One, Div(Z, Sub(One, Z)))

\* the adding step without the multiple-reflection series on T
difUpStepNoSeries(Ls, F, i, R_last) ==
    Let(rtDiffuse(Ls[i]), LAMBDA rt :
        IF rt.err THEN [err |-> TRUE, flux |-> F, R_last |-> R_last]
        ELSE Let(Series(Mul(R_last, rt.R)), LAMBDA M :
             Let2(Add(rt.R, Mul(Mul(Mul(rt.T, rt.T), R_last), M)),
                  rt.T, LAMBDA R, T :
                  [err |-> FALSE,
                   flux |-> [F EXCEPT ![i].Iup_dif = R, ![i].Idn_dif = T],
                   R_last |-> R])))

\* one iteration of the bottom-up loop of getFluxesCanopyDif
difUpStep(Ls, F, i, R_last) ==
    Let(rtDiffuse(Ls[i]), LAMBDA rt :
        IF rt.err THEN [err |-> TRUE, flux |-> F, R_last |-> R_last]
        ELSE Let(Series(Mul(R_last, rt.R)), LAMBDA M :
             Let2(Add(rt.R, Mul(Mul(Mul(rt.T, rt.T), R_last), M)),
                  Mul(rt.T, M), LAMBDA R, T :
                  [err |-> FALSE,
                   flux |-> [F EXCEPT ![i].Iup_dif = R, ![i].Idn_dif = T],
                   R_last |-> R])))

\* the cumulative transmission is updated before the layer is scaled
difDownStepLate(F, i, T) ==
    Let2(F[i].Idn_dif, Mul(T, F[i].Idn_dif), LAMBDA t, T2 :
        [flux |-> [F EXCEPT ![i].Iup_dif = Mul(F[i].Iup_dif, T2),
                            ![i].Idn_dif = Mul(F[i].Idn_dif, T2)],
         T |-> T2])

\* one iteration of the top-down loop of getFluxesCanopyDif
difDownStep(F, i, T) ==
    Let(F[i].Idn_dif, LAMBDA t :
        [flux |-> [F EXCEPT ![i].Iup_dif = Mul(F[i].Iup_dif, T),
                            ![i].Idn_dif = Mul(F[i].Idn_dif, T)],
         T |-> Mul(T, t)])

\* the energy-balance loop of getFluxesCanopyDif
absorbDif(F, r) ==
    [i \in 1..Len(F) |->
        LET Idn_above == IF i = 1 THEN One ELSE F[i - 1].Idn_dif
            Iup_below == IF i = Len(F) THEN Mul(F[i].Idn_dif, r)
                         ELSE F[i + 1].Iup_dif
            Idn == F[i].Idn_dif
            Iup == F[i].Iup_dif
        IN  [F[i] EXCEPT !.Iab_dif =
                Abs(Sub(Add(Sub(Iup_below, Iup), Idn_above), Idn))]]

\* the uncollided beam is counted twice in the downward flux: Tu for Tu-U
dirAddingDoubleCount(F, i, Ru, Tu, Rc, Tc, U, Ru_last, Rc_last) ==
    Let(Series(Mul(Rc_last, Rc)), LAMBDA M :
    Let2(Add(Add(Ru, Mul(Mul(Mul(U, Ru_last), Tc), M)),
             Mul(Mul(Mul(Sub(Tu, U), Rc_last), Tc), M)),
         Add(Add(U, Mul(Mul(Mul(U, Ru_last), Rc), M)),
             Mul(Tu, M)), LAMBDA RuNew, TuNew :
    Let2(Add(Rc, Mul(Mul(Mul(Tc, Rc_last), Tc), M)),
         Mul(Tc, M), LAMBDA RcNew, TcNew :
        [err |-> FALSE,
         flux |-> [F EXCEPT ![i].Iup_dir_u = RuNew, ![i].Iup_dir_c = RcNew,
                            ![i].Idn_dir_u = TuNew, ![i].Idn_dir_c = TcNew],
         Ru_last |-> RuNew, Rc_last |-> RcNew])))

\* the new values of one layer in the bottom-up loop of getFluxesCanopyDir
dirAdding(F, i, Ru, Tu, Rc, Tc, U, Ru_last, Rc_last) ==
    Let(Series(Mul(Rc_last, Rc)), LAMBDA M :
    Let2(Add(Add(Ru, Mul(Mul(Mul(U, Ru_last), Tc), M)),
             Mul(Mul(Mul(Sub(Tu, U), Rc_last), Tc), M)),
         Add(Add(U, Mul(Mul(Mul(U, Ru_last), Rc), M)),
             Mul(Sub(Tu, U), M)), LAMBDA RuNew, TuNew :
    Let2(Add(Rc, Mul(Mul(Mul(Tc, Rc_last), Tc), M)),
         Mul(Tc, M), LAMBDA RcNew, TcNew :
        [err |-> FALSE,
         flux |-> [F EXCEPT ![i].Iup_dir_u = RuNew, ![i].Iup_dir_c = RcNew,
                            ![i].Idn_dir_u = TuNew, ![i].Idn_dir_c = TcNew],
         Ru_last |-> RuNew, Rc_last |-> RcNew])))

\* one iteration of the bottom-up loop of getFluxesCanopyDir
dirUpStep(Ls, m, F, i, Ru_last, Rc_last) ==
    Let(rtDirect(Ls[i], m), LAMBDA d :
    Let(IF d.err THEN RaisedRT ELSE rtDiffuse(Ls[i]), LAMBDA c :
        IF d.err \/ c.err
        THEN [err |-> TRUE, flux |-> F, Ru_last |-> Ru_last, Rc_last |-> Rc_last]
        ELSE Let(tUncollidedDirect(Ls[i], m), LAMBDA U :
                 dirAdding(F, i, d.R, d.T, c.R, c.T, U, Ru_last, Rc_last))))

\* one iteration of the top-down loop of getFluxesCanopyDir
dirDownStep(Ls, m, F, i, Tu, Tc) ==
    Let2(Mul(F[i].Iup_dir_u, Tu), Mul(F[i].Idn_dir_u, Tu), LAMBDA uu, du :
    Let2(Mul(F[i].Iup_dir_c, Tc), Mul(F[i].Idn_dir_c, Tc), LAMBDA uc, dc :
    Let(Mul(Tu, tUncollidedDirect(Ls[i], m)), LAMBDA Tu2 :
        [flux |-> [F EXCEPT ![i].Iup_dir_u = uu, ![i].Idn_dir_u = du,
                            ![i].Iup_dir_c = uc, ![i].Idn_dir_c = dc,
                            ![i].Iup_dir = Add(uc, uu),
                            ![i].Idn_dir = Add(dc, du)],
         Tu |-> Tu2,
         Tc |-> Add(dc, Sub(du, Tu2))])))

\* the energy-balance loop of getFluxesCanopyDir
absorbDir(F, r) ==
    [i \in 1..Len(F) |->
        LET Idn_above == IF i = 1 THEN One ELSE F[i - 1].Idn_dir
            Iup_below == IF i = Len(F) THEN Mul(F[i].Idn_dir, r)
                         ELSE F[i + 1].Iup_dir
            Idn == F[i].Idn_dir
            Iup == F[i].Iup_dir
        IN  [F[i] EXCEPT !.Iab_dir =
                Abs(Sub(Add(Sub(Iup_below, Iup), Idn_above), Idn))]]

\* a blend that keeps a total an earlier call has already stored
blendCached(F, p) ==
    [i \in 1..Len(F) |->
        IF IsNum(F[i].Iup) THEN F[i]
        ELSE [F[i] EXCEPT
                !.Iup = Add(Mul(Sub(One, p), F[i].Iup_dir), Mul(p, F[i].Iup_dif)),
                !.Idn = Add(Mul(Sub(One, p), F[i].Idn_dir), Mul(p, F[i].Idn_dif)),
                !.Iab = Add(Mul(Sub(One, p), F[i].Iab_dir), Mul(p, F[i].Iab_dif))]]

\* Iup is blended from Idn_dif
blendTypo(F, p) ==
    [i \in 1..Len(F) |->
        [F[i] EXCEPT
            !.Iup = Add(Mul(Sub(One, p), F[i].Iup_dir), Mul(p, F[i].Idn_dif)),
            !.Idn = Add(Mul(Sub(One, p), F[i].Idn_dir), Mul(p, F[i].Idn_dif)),
            !.Iab = Add(Mul(Sub(One, p), F[i].Iab_dir), Mul(p, F[i].Iab_dif))]]

\* the closing loop of getFluxes
blend(F, p) ==
    [i \in 1..Len(F) |->
        [F[i] EXCEPT
            !.Iup = Add(Mul(Sub(One, p), F[i].Iup_dir), Mul(p, F[i].Iup_dif)),
            !.Idn = Add(Mul(Sub(One, p), F[i].Idn_dir), Mul(p, F[i].Idn_dif)),
            !.Iab = Add(Mul(Sub(One, p), F[i].Iab_dir), Mul(p, F[i].Iab_dif))]]

RECURSIVE dirUpLoop(_, _, _, _, _, _)
dirUpLoop(Ls, m, F, i, Ru_last, Rc_last) ==
    IF i = 0 THEN [err |-> FALSE, flux |-> F]
    ELSE Let2(dirUpStep(Ls, m, F, i, Ru_last, Rc_last), i - 1, LAMBDA s, j :
              IF s.err THEN [err |-> TRUE, flux |-> s.flux]
              ELSE dirUpLoop(Ls, m, s.flux, j, s.Ru_last, s.Rc_last))

RECURSIVE dirDownLoop(_, _, _, _, _, _)
dirDownLoop(Ls, m, F, i, Tu, Tc) ==
    IF i > Len(Ls) THEN F
    ELSE Let2(dirDownStep(Ls, m, F, i, Tu, Tc), i + 1, LAMBDA s, j :
              dirDownLoop(Ls, m, s.flux, j, s.Tu, s.Tc))

RECURSIVE difUpLoop(_, _, _, _)
difUpLoop(Ls, F, i, R_last) ==
    IF i = 0 THEN [err |-> FALSE, flux |-> F]
    ELSE Let2(difUpStep(Ls, F, i, R_last), i - 1, LAMBDA s, j :
              IF s.err THEN [err |-> TRUE, flux |-> s.flux]
              ELSE difUpLoop(Ls, s.flux, j, s.R_last))

RECURSIVE difDownLoop(_, _, _)
difDownLoop(F, i, T) ==
    IF i > Len(F) THEN F
    ELSE Let2(difDownStep(F, i, T), i + 1, LAMBDA s, j :
              difDownLoop(s.flux, j, s.T))

getFluxesCanopyDir(Ls, m, r, F) ==
    Let(dirUpLoop(Ls, m, F, Len(Ls), r, r), LAMBDA up :
        IF up.err THEN up
        ELSE Let(dirDownLoop(Ls, m, up.flux, 1, One, Zero), LAMBDA down :
                 [err |-> FALSE, flux |-> absorbDir(down, r)]))

getFluxesCanopyDif(Ls, r, F) ==
    Let(difUpLoop(Ls, F, Len(Ls), r), LAMBDA up :
        IF up.err THEN up
        ELSE Let(difDownLoop(up.flux, 1, One), LAMBDA down :
                 [err |-> FALSE, flux |-> absorbDif(down, r)]))

\* getFluxes on a stack whose layers hold the fields F: err = an exception
\* left the call, flux = the fields when the call ends
getFluxes(Ls, m, r, p, F) ==
    Let(getFluxesCanopyDir(Ls, m, r, F), LAMBDA dir :
        IF dir.err THEN dir
        ELSE Let(getFluxesCanopyDif(Ls, r, dir.flux), LAMBDA dif :
                 IF dif.err THEN dif
                 ELSE [err |-> FALSE, flux |-> blend(dif.flux, p)]))

---------------------------------------------------------------------------
(* Bounds and the enumerated parameter values.                             *)

MaxLayers == 2
MaxMutations == 1
\* leaf and upscatter values of the getGamma study are multiples of 1/GridDen
GridDen == 4

Layer(leaf_r, leaf_t, lai, muBar, B, B0, dif, dir) ==
    [leaf_r |-> leaf_r, leaf_t |-> leaf_t, lai |-> lai,
     G |-> One, Z |-> One, muBar |-> muBar, B |-> B, B0 |-> B0,
     gamma_scaling_diffuse |-> dif, gamma_scaling_direct |-> dir]

\* reflecting leaves: g1, g2, k = 5/6, 4/6, 1/2
Leafy == Layer(Rat(4, 5), Zero, Two, Rat(6, 5), One, Half, "delta", "delta")
\* leaf_r = leaf_t = 0: k = g1 = 1/2
Black == Layer(Zero, Zero, Two, Two, Half, Half, "delta", "delta")
\* leaf_r = leaf_t = 0 with k*mu = 1, where D of rtDirect is 0
BlackSingular == Layer(Zero, Zero, Two, One, Half, Half, "delta", "delta")
\* purely forward scattering leaves (B = 0): k = 1/4 (delta), 3/4 (quad)
ForwardMixed == Layer(Zero, Half, Rat(4, 1), Two, Zero, Half, "delta", "quad")
\* leaf_r + leaf_t = 5/4 > 1: g1 < g2
Supra == Layer(Rat(5, 8), Rat(5, 8), Two, One, Half, Half, "delta", "delta")
UnknownDif == Layer(Rat(4, 5), Zero, Two, Rat(6, 5), One, Half, "other", "delta")
UnknownDir == Layer(Rat(4, 5), Zero, Two, Rat(6, 5), One, Half, "delta", "other")

Kinds == {Leafy, Black, BlackSingular, ForwardMixed, Supra,
          UnknownDif, UnknownDir}

MuValues == {One}
Reflectances == {Zero, Half, One}
Fractions == {Zero, Half, One}

NoLocals == [Ru_last |-> Unset, Rc_last |-> Unset, R_last |-> Unset,
             Tu |-> Unset, Tc |-> Unset, T |-> Unset]

Methods == {"delta", "quad", "other"}
Grid == {Rat(i, GridDen) : i \in 0..GridDen}
NoProbe == [layer |-> Leafy, method |-> "delta"]
NoGamma == [called |-> FALSE, out |-> Failed]

---------------------------------------------------------------------------
(* The stack as its user sees it: construction, parameter changes, and     *)
(* getFluxes as one step.                                                  *)

\* layeredCanopy.__init__, followed by the same parameters on every layer,
\* a reflecting ground and a sky that is half diffuse
Init ==
    /\ mu \in MuValues
    /\ \E n \in 1..MaxLayers, k \in Kinds :
          /\ layers = [i \in 1..n |-> k]
          /\ flux = [i \in 1..n |-> NoFields]
    /\ lower_boundary_r = Half
    /\ propDif = Half
    /\ last = "none"
    /\ dirty = FALSE
    /\ muts = 0
    /\ again = FALSE
    /\ pc = "idle"
    /\ idx = 0
    /\ loc = NoLocals
    /\ probe = NoProbe
    /\ gam = NoGamma

\* the parameters of one layer are assigned
SetLayer ==
    /\ pc = "idle"
    /\ muts < MaxMutations
    /\ \E i \in 1..Len(layers), k \in Kinds :
          /\ k # layers[i]
          /\ layers' = [layers EXCEPT ![i] = k]
    /\ dirty' = TRUE
    /\ muts' = muts + 1
    /\ again' = FALSE
    /\ UNCHANGED <<mu, lower_boundary_r, propDif, flux, last, pc, idx,
                   loc, probe, gam>>

SetBoundary ==
    /\ pc = "idle"
    /\ muts < MaxMutations
    /\ \E r \in Reflectances :
          /\ r # lower_boundary_r
          /\ lower_boundary_r' = r
    /\ dirty' = TRUE
    /\ muts' = muts + 1
    /\ again' = FALSE
    /\ UNCHANGED <<mu, layers, propDif, flux, last, pc, idx, loc,
                   probe, gam>>

SetPropDif ==
    /\ pc = "idle"
    /\ muts < MaxMutations
    /\ \E p \in Fractions :
          /\ p # propDif
          /\ propDif' = p
    /\ dirty' = TRUE
    /\ muts' = muts + 1
    /\ again' = FALSE
    /\ UNCHANGED <<mu, layers, lower_boundary_r, flux, last, pc, idx,
                   loc, probe, gam>>

\* layeredCanopy.getFluxes, start to end
CallGetFluxes ==
    /\ pc = "idle"
    /\ \E out \in {getFluxes(layers, mu, lower_boundary_r, propDif, flux)} :
          /\ flux' = out.flux
          /\ last' = IF out.err THEN "raised" ELSE "ok"
    /\ dirty' = FALSE
    /\ again' = (last # "none" /\ ~dirty)
    /\ UNCHANGED <<mu, layers, lower_boundary_r, propDif, muts, pc, idx, loc,
                   probe, gam>>

Next == SetLayer \/ SetBoundary \/ SetPropDif \/ CallGetFluxes

Spec == Init /\ [][Next]_vars

---------------------------------------------------------------------------
(* One getFluxes call, loop iteration by loop iteration.  pc names the     *)
(* loop being run and idx is its loop variable; a step that ends a loop    *)
(* also initialises the next one, as the straight-line code between the    *)
(* loops does.                                                             *)

InitSteps ==
    /\ mu \in MuValues
    /\ \E n \in 1..MaxLayers :
          /\ layers \in [1..n -> Kinds]
          /\ flux = [i \in 1..n |-> NoFields]
    /\ lower_boundary_r \in Reflectances
    /\ propDif \in Fractions
    /\ last = "none"
    /\ dirty = FALSE
    /\ muts = 0
    /\ again = FALSE
    /\ pc = "idle"
    /\ idx = 0
    /\ loc = NoLocals
    /\ probe = NoProbe
    /\ gam = NoGamma

Params == <<mu, layers, lower_boundary_r, propDif, dirty, muts, again, probe,
            gam>>

\* getFluxes is called; getFluxesCanopyDir seeds Ru_last and Rc_last
Enter ==
    /\ pc = "idle"
    /\ last = "none"
    /\ pc' = "dir_up"
    /\ idx' = Len(layers)
    /\ loc' = [NoLocals EXCEPT !.Ru_last = lower_boundary_r,
                               !.Rc_last = lower_boundary_r]
    /\ UNCHANGED <<flux, last>>
    /\ UNCHANGED Params

DirUp ==
    /\ pc = "dir_up"
    /\ \E s \in {dirUpStep(layers, mu, flux, idx, loc.Ru_last, loc.Rc_last)} :
           /\ flux' = s.flux
           /\ IF s.err
              THEN /\ pc' = "idle"
                   /\ last' = "raised"
                   /\ idx' = 0
                   /\ loc' = NoLocals
              ELSE /\ last' = last
                   /\ IF idx = 1
                      THEN /\ pc' = "dir_down"
                           /\ idx' = 1
                           /\ loc' = [loc EXCEPT !.Ru_last = s.Ru_last,
                                                 !.Rc_last = s.Rc_last,
                                                 !.Tu = One, !.Tc = Zero]
                      ELSE /\ pc' = pc
                           /\ idx' = idx - 1
                           /\ loc' = [loc EXCEPT !.Ru_last = s.Ru_last,
                                                 !.Rc_last = s.Rc_last]
    /\ UNCHANGED Params

DirDown ==
    /\ pc = "dir_down"
    /\ \E s \in {dirDownStep(layers, mu, flux, idx, loc.Tu, loc.Tc)} :
           /\ flux' = s.flux
           /\ loc' = [loc EXCEPT !.Tu = s.Tu, !.Tc = s.Tc]
    /\ IF idx = Len(layers)
       THEN pc' = "dir_abs" /\ idx' = 1
       ELSE pc' = pc /\ idx' = idx + 1
    /\ UNCHANGED last
    /\ UNCHANGED Params

\* the energy balance of getFluxesCanopyDir; getFluxesCanopyDif seeds R_last
DirAbsorb ==
    /\ pc = "dir_abs"
    /\ flux' = absorbDir(flux, lower_boundary_r)
    /\ pc' = "dif_up"
    /\ idx' = Len(layers)
    /\ loc' = [NoLocals EXCEPT !.R_last = lower_boundary_r]
    /\ UNCHANGED last
    /\ UNCHANGED Params

DifUp ==
    /\ pc = "dif_up"
    /\ \E s \in {difUpStep(layers, flux, idx, loc.R_last)} :
           /\ flux' = s.flux
           /\ IF s.err
              THEN /\ pc' = "idle"
                   /\ last' = "raised"
                   /\ idx' = 0
                   /\ loc' = NoLocals
              ELSE /\ last' = last
                   /\ IF idx = 1
                      THEN /\ pc' = "dif_down"
                           /\ idx' = 1
                           /\ loc' = [loc EXCEPT !.R_last = s.R_last, !.T = One]
                      ELSE /\ pc' = pc
                           /\ idx' = idx - 1
                           /\ loc' = [loc EXCEPT !.R_last = s.R_last]
    /\ UNCHANGED Params

DifDown ==
    /\ pc = "dif_down"
    /\ \E s \in {difDownStep(flux, idx, loc.T)} :
           /\ flux' = s.flux
           /\ loc' = [loc EXCEPT !.T = s.T]
    /\ IF idx = Len(layers)
       THEN pc' = "dif_abs" /\ idx' = 1
       ELSE pc' = pc /\ idx' = idx + 1
    /\ UNCHANGED last
    /\ UNCHANGED Params

DifAbsorb ==
    /\ pc = "dif_abs"
    /\ flux' = absorbDif(flux, lower_boundary_r)
    /\ pc' = "blend"
    /\ idx' = 1
    /\ loc' = NoLocals
    /\ UNCHANGED last
    /\ UNCHANGED Params

Blend ==
    /\ pc = "blend"
    /\ flux' = blend(flux, propDif)
    /\ pc' = "idle"
    /\ idx' = 0
    /\ last' = "ok"
    /\ UNCHANGED loc
    /\ UNCHANGED Params

NextSteps ==
    \/ Enter
    \/ DirUp
    \/ DirDown
    \/ DirAbsorb
    \/ DifUp
    \/ DifDown
    \/ DifAbsorb
    \/ Blend

SpecSteps == InitSteps /\ [][NextSteps]_vars

---------------------------------------------------------------------------
(* getGamma on its own: the inputs are drawn from a grid and the call is   *)
(* applied to them.                                                        *)

InitGamma ==
    /\ \E lr \in Grid, lt \in Grid, b \in Grid, b0 \in Grid,
          mb \in {One, Two}, m \in Methods :
          probe = [layer |-> Layer(lr, lt, One, mb, b, b0, "delta", "delta"),
                   method |-> m]
    /\ gam = NoGamma
    /\ mu \in MuValues
    /\ layers = <<Leafy>>
    /\ flux = <<NoFields>>
    /\ lower_boundary_r = Zero
    /\ propDif = Zero
    /\ last = "none"
    /\ dirty = FALSE
    /\ muts = 0
    /\ again = FALSE
    /\ pc = "idle"
    /\ idx = 0
    /\ loc = NoLocals

CallGetGamma ==
    /\ ~gam.called
    /\ gam' = [called |-> TRUE, out |-> getGamma(probe.layer, probe.method)]
    /\ UNCHANGED <<mu, layers, lower_boundary_r, propDif, flux, last, dirty,
                   muts, again, pc, idx, loc, probe>>

NextGamma == CallGetGamma

SpecGamma == InitGamma /\ [][NextGamma]_vars

---------------------------------------------------------------------------
(* Properties.  Two numbers are equal when they are the same rational, or  *)
(* both non-finite.                                                        *)

Fresh(n) == [i \in 1..n |-> NoFields]

\* a getFluxes call has returned and no parameter was changed since
Done == pc = "idle" /\ last = "ok" /\ ~dirty

Homogeneous == \A i \in 1..Len(layers) : layers[i] = layers[1]

\* the one-layer stack that holds the whole leaf area of a homogeneous stack
Thick == <<[layers[1] EXCEPT !.lai = Mul(layers[1].lai, Rat(Len(layers), 1))]>>

\* C1 as stated: after getFluxes on n identical layers, the top layer's Iup
\* and the bottom layer's Idn are those of the one-layer stack of leaf area
\* n*lai under the same lower_boundary_r and propDif
C1_AnyPolicy ==
    (Done /\ Homogeneous) =>
        \A ref \in {getFluxes(Thick, mu, lower_boundary_r, propDif, Fresh(1))} :
            /\ ~ref.err
            /\ flux[1].Iup = ref.flux[1].Iup
            /\ flux[Len(layers)].Idn = ref.flux[1].Idn

\* The equality of C1 on the homogeneous stacks whose layers use one and
\* the same scaling policy for the direct and the diffuse closed forms
C1_SamePolicy ==
    (/\ Done
     /\ Homogeneous
     /\ layers[1].gamma_scaling_direct = layers[1].gamma_scaling_diffuse) =>
        \A ref \in {getFluxes(Thick, mu, lower_boundary_r, propDif, Fresh(1))} :
            /\ ~ref.err
            /\ flux[1].Iup = ref.flux[1].Iup
            /\ flux[Len(layers)].Idn = ref.flux[1].Idn

In01(x) == Leq(Zero, x) /\ Leq(x, One)

\* the layer's own reflectances and transmittances are physically valid
ValidOptics(L, m) ==
    \A d \in {rtDirect(L, m)}, c \in {rtDiffuse(L)},
       U \in {tUncollidedDirect(L, m)} :
        /\ ~d.err /\ ~c.err
        /\ In01(c.R) /\ In01(c.T) /\ Leq(Add(c.R, c.T), One)
        /\ In01(d.R) /\ In01(d.T) /\ Leq(Add(d.R, d.T), One)
        /\ Leq(U, d.T)

\* Idn_above - Idn + Iup_below - Iup of layer i, for the fields named up, dn
Residual(F, r, i, up, dn) ==
    Sub(Add(Sub(IF i = 1 THEN One ELSE F[i - 1][dn], F[i][dn]),
            IF i = Len(F) THEN Mul(F[i][dn], r) ELSE F[i + 1][up]),
        F[i][up])

RECURSIVE SumTo(_, _, _)
SumTo(F, ab, i) == IF i = 0 THEN Zero ELSE Add(SumTo(F, ab, i - 1), F[i][ab])

Conserves(F, r, up, dn, ab) ==
    /\ \A i \in 1..Len(F) : Residual(F, r, i, up, dn) = F[i][ab]
    /\ Add(Add(SumTo(F, ab, Len(F)), F[1][up]),
           Mul(F[Len(F)][dn], Sub(One, r))) = One

\* C2: after getFluxes on layers with physically valid optics, the signed
\* residual of every layer is its reported absorption, and absorption plus
\* what leaves at the top and into the ground is the unit incident flux, for
\* the diffuse, the direct and the blended fields
C2_EnergyConservation ==
    (Done /\ \A i \in 1..Len(layers) : ValidOptics(layers[i], mu)) =>
        /\ Conserves(flux, lower_boundary_r, "Iup_dif", "Idn_dif", "Iab_dif")
        /\ Conserves(flux, lower_boundary_r, "Iup_dir", "Idn_dir", "Iab_dir")
        /\ Conserves(flux, lower_boundary_r, "Iup", "Idn", "Iab")

\* a reflecting layer over a black one, reflecting ground, mixed sky
C2_Witness ==
    /\ Done
    /\ layers = <<Leafy, Black>>
    /\ ValidOptics(Leafy, mu) /\ ValidOptics(Black, mu)
    /\ lower_boundary_r = Half
    /\ propDif = Half
    /\ \A i \in 1..2 : IsNum(flux[i].Iab) /\ flux[i].Iab # Zero

C4_SingleLayer ==
    (Done /\ Len(layers) = 1) =>
        \A d \in {rtDirect(layers[1], mu)}, c \in {rtDiffuse(layers[1])},
           U \in {tUncollidedDirect(layers[1], mu)}, r \in {lower_boundary_r} :
           \A q \in {Sub(One, Mul(r, c.R))} :
            /\ flux[1].Iup_dif = Add(c.R, Div(Mul(Mul(c.T, c.T), r), q))
            /\ flux[1].Idn_dif = Div(c.T, q)
            /\ flux[1].Iup_dir = Add(d.R, Div(Mul(Mul(d.T, r), c.T), q))
            /\ flux[1].Idn_dir =
                   Add(U, Div(Add(Mul(Mul(U, r), c.R), Sub(d.T, U)), q))

\* one reflecting layer over a reflecting ground: r*R # 0
C4_Witness ==
    /\ Done
    /\ layers = <<Leafy>>
    /\ lower_boundary_r = Half
    /\ IsNum(flux[1].Iup_dif) /\ IsNum(flux[1].Idn_dir)
    /\ flux[1].Idn_dif # rtDiffuse(Leafy).T

AllBlack ==
    \A i \in 1..Len(layers) :
        layers[i].leaf_r = Zero /\ layers[i].leaf_t = Zero

\* the direct closed forms of the layer divide by 0: k*mu = 1
Singular(L, m) ==
    \A g \in {getGamma(L, L.gamma_scaling_direct)} :
        ~g.err /\
        Mul(Sqrt(Sub(Mul(g.g1, g.g1), Mul(g.g2, g.g2))), m) = One

Known == {"delta", "quad"}

HasUnknown ==
    \E i \in 1..Len(layers) :
        \/ layers[i].gamma_scaling_diffuse \notin Known
        \/ layers[i].gamma_scaling_direct \notin Known

Finals == {"Iup", "Idn", "Iab", "Iup_dir", "Idn_dir", "Iab_dir",
           "Iup_dif", "Idn_dif", "Iab_dif"}

\* C6: getGamma with a method other than "delta" and "quad" raises and
\* returns no coefficients, so do rtDiffuse and rtDirect of a layer whose
\* policy is such a value, and a getFluxes call on a stack with such a layer
\* ends in the error, in the first loop, with no flux produced
C6_UnknownPolicy ==
    /\ \A i \in 1..Len(layers) :
          /\ layers[i].gamma_scaling_diffuse \notin Known =>
                /\ getGamma(layers[i], layers[i].gamma_scaling_diffuse) = Failed
                /\ rtDiffuse(layers[i]).err
          /\ layers[i].gamma_scaling_direct \notin Known =>
                /\ getGamma(layers[i], layers[i].gamma_scaling_direct) = Failed
                /\ rtDirect(layers[i], mu).err
    /\ HasUnknown =>
          /\ pc \in {"idle", "dir_up"}
          /\ last # "ok"
          /\ (pc = "idle" /\ last # "none") => last = "raised"
          /\ \A i \in 1..Len(layers) : \A f \in Finals : flux[i][f] = Unset

\* the bottom layer was combined, then the top layer's rtDiffuse raised
C6_Witness ==
    /\ pc = "idle"
    /\ last = "raised"
    /\ layers = <<UnknownDif, Leafy>>
    /\ IsNum(flux[2].Iup_dir_u)
    /\ flux[1].Iup_dir_u = Unset

\* g1 < g2 for one of the two policies of the layer
NonReal(L) ==
    \E method \in {L.gamma_scaling_direct, L.gamma_scaling_diffuse} :
        \E g \in {getGamma(L, method)} :
            ~g.err /\ Leq(g.g1, g.g2) /\ g.g1 # g.g2

\* C7 as stated: a getFluxes call on a stack with a layer whose g1 < g2 ends
\* in an error, and leaves no non-finite value in a result field
C7_ExplicitError ==
    (/\ pc = "idle"
     /\ last # "none"
     /\ ~dirty
     /\ \E i \in 1..Len(layers) : NonReal(layers[i])) =>
        /\ last = "raised"
        /\ \A i \in 1..Len(layers) : \A f \in DOMAIN flux[i] :
              flux[i][f] = Unset \/ IsNum(flux[i][f])

\* the inputs the contract of getGamma calls valid
ValidProbe ==
    /\ probe.method \in Known
    /\ Leq(w(probe.layer), One)

\* the scale the policy stands for
ScaleOf(L, method) ==
    IF method = "quad" THEN Sqrt(Rat(3, 1)) ELSE Div(One, Mul(L.G, L.muBar))

\* C8: on valid inputs getGamma returns g1 = (1-(1-B)*w)*scale and
\* g2 = w*B*scale with g1 >= g2 >= 0, and g3 = B0, g4 = 1 - g3, g3 + g4 = 1
C8_GammaContract ==
    (gam.called /\ ValidProbe) =>
        \A L \in {probe.layer}, g \in {gam.out} :
          \A sc \in {ScaleOf(L, probe.method)} :
            /\ ~g.err
            /\ Leq(Zero, sc) /\ sc # Zero
            /\ g.g1 = Add(Sub(sc, Mul(sc, w(L))), Mul(Mul(sc, L.B), w(L)))
            /\ g.g2 = Mul(sc, Mul(L.B, w(L)))
            /\ Leq(g.g2, g.g1)
            /\ Leq(Zero, g.g2)
            /\ Leq(Zero, Sub(Mul(g.g1, g.g1), Mul(g.g2, g.g2)))
            /\ g.g3 = L.B0
            /\ g.g4 = Sub(One, g.g3)
            /\ Add(g.g3, g.g4) = One

\* scattering leaves with unequal upscatter fractions, quadrature scale
C8_Witness ==
    /\ gam.called
    /\ ValidProbe
    /\ probe.method = "quad"
    /\ w(probe.layer) = Rat(3, 4)
    /\ probe.layer.B = Rat(1, 4)
    /\ probe.layer.B0 = Rat(3, 4)
    /\ gam.out.g1 # gam.out.g2
    /\ gam.out.g2 # Zero

\* the pairs (R_new, T_new) the bottom-up loop of getFluxesCanopyDif stores
Stored == difUpLoop(layers, Fresh(Len(layers)), Len(layers), lower_boundary_r)

\* T_new of layer 1 * ... * T_new of layer i
RECURSIVE ProdT(_, _)
ProdT(S, i) == IF i = 0 THEN One ELSE Mul(ProdT(S, i - 1), S[i].Idn_dif)

\* C9: getFluxesCanopyDif first stores (R_new, T_new) on every layer, bottom
\* to top, and only then scales the layers top to bottom, each by the
\* product of the T_new of the layers above it, which it extends by the
\* layer's own T_new afterwards; at the end Iup_dif of layer i is R_new_i
\* times the product of T_new_j over the layers j above i, and Idn_dif of
\* layer i is the product of T_new_j over j = i and the layers above it
C9_DiffuseOrdering ==
    (pc \in {"dif_up", "dif_down", "dif_abs", "blend"} \/ last = "ok") =>
      \A S \in {Stored.flux} :
        /\ pc = "dif_up" =>
              \A i \in 1..Len(layers) :
                 IF i > idx
                 THEN /\ flux[i].Iup_dif = S[i].Iup_dif
                      /\ flux[i].Idn_dif = S[i].Idn_dif
                 ELSE /\ flux[i].Iup_dif = Unset
                      /\ flux[i].Idn_dif = Unset
        /\ pc = "dif_down" =>
              /\ loc.T = ProdT(S, idx - 1)
              /\ \A i \in 1..Len(layers) :
                    IF i >= idx
                    THEN /\ flux[i].Iup_dif = S[i].Iup_dif
                         /\ flux[i].Idn_dif = S[i].Idn_dif
                    ELSE /\ flux[i].Iup_dif = Mul(S[i].Iup_dif, ProdT(S, i - 1))
                         /\ flux[i].Idn_dif = ProdT(S, i)
        /\ pc \notin {"dif_up", "dif_down"} =>
              \A i \in 1..Len(layers) :
                 /\ flux[i].Iup_dif = Mul(S[i].Iup_dif, ProdT(S, i - 1))
                 /\ flux[i].Idn_dif = ProdT(S, i)

\* the second of two layers is being scaled: the first already is
C9_Witness ==
    /\ pc = "dif_down"
    /\ idx = 2
    /\ layers = <<Leafy, Black>>
    /\ lower_boundary_r = Half
    /\ IsNum(loc.T) /\ loc.T # One /\ loc.T # Zero
    /\ IsNum(flux[1].Iup_dif) /\ flux[1].Iup_dif # Zero

\* tUncollidedDirect of layer 1 * ... * of layer i
RECURSIVE ProdU(_)
ProdU(i) ==
    IF i = 0 THEN One ELSE Mul(ProdU(i - 1), tUncollidedDirect(layers[i], mu))

\* C10 as stated: at the start of the top-down iteration of
\* getFluxesCanopyDir for layer i, Tu is the product of tUncollidedDirect
\* of the layers above i, and Tu + Tc is 1 for the top layer (Tu = 1,
\* Tc = 0) and Idn_dir of the layer above otherwise; once the top layer is
\* scaled its Iup_dir_c and Idn_dir_c are 0
C10_DirectContinuity ==
    /\ pc = "dir_down" =>
          /\ loc.Tu = ProdU(idx - 1)
          /\ idx = 1 => (loc.Tu = One /\ loc.Tc = Zero)
          /\ idx > 1 => Add(loc.Tu, loc.Tc) = flux[idx - 1].Idn_dir
    /\ (\/ pc = "dir_down" /\ idx > 1
        \/ pc \in {"dir_abs", "dif_up", "dif_down", "dif_abs", "blend"}
        \/ last = "ok") =>
          /\ flux[1].Iup_dir_c = Zero
          /\ flux[1].Idn_dir_c = Zero

\* The statement of C10 with the last part read on finite values only
C10_WhereFinite ==
    /\ pc = "dir_down" =>
          /\ loc.Tu = ProdU(idx - 1)
          /\ idx = 1 => (loc.Tu = One /\ loc.Tc = Zero)
          /\ idx > 1 => Add(loc.Tu, loc.Tc) = flux[idx - 1].Idn_dir
    /\ (\/ pc = "dir_down" /\ idx > 1
        \/ pc \in {"dir_abs", "dif_up", "dif_down", "dif_abs", "blend"}
        \/ last = "ok") =>
          /\ flux[1].Iup_dir_c = Zero \/ ~IsNum(flux[1].Iup_dir_c)
          /\ flux[1].Idn_dir_c = Zero \/ ~IsNum(flux[1].Idn_dir_c)

===========================================================================
